---- MODULE Spec2Model ----
(***************************************************************************)
(* RC5-32/12/16 as implemented by package rc5 (src/rc5.go, and the         *)
(* math/bits revision of the same file, src/unnamed/part_000).             *)
(*                                                                         *)
(* A uint32 is the pair <<hi, lo>> of its 16-bit halves, because TLC's     *)
(* integers stop at 2^31 - 1; every operation on it is computed mod 2^32.  *)
(* Go arrays and slices are sequences; At/Put index them from 0 as the     *)
(* source does.                                                            *)
(***************************************************************************)
EXTENDS Integers, Sequences, FiniteSets, TLC

\* ------------------------------------------------------------ uint32

Half == 2 ^ 16

Word(hi, lo) == <<hi, lo>>

Zero32 == Word(0, 0)

IsWord(x) == x[1] \in 0..(Half - 1) /\ x[2] \in 0..(Half - 1)

At(s, i) == s[i + 1]

Put(s, i, v) == [s EXCEPT ![i + 1] = v]

\* x + y on uint32
Add32(x, y) ==
  LET lo == x[2] + y[2]
      hi == x[1] + y[1] + (lo \div Half)
  IN  Word(hi % Half, lo % Half)

\* x - y on uint32
Sub32(x, y) ==
  LET lo == x[2] - y[2]
      br == IF lo < 0 THEN 1 ELSE 0
      hi == x[1] - y[1] - br
  IN  Word(hi % Half, lo % Half)

\* a ^ b and a | b on n-bit operands, bit by bit
RECURSIVE XorBits(_, _, _)
XorBits(a, b, n) ==
  IF n = 0 THEN 0
  ELSE ((a + b) % 2) + 2 * XorBits(a \div 2, b \div 2, n - 1)

RECURSIVE OrBits(_, _, _)
OrBits(a, b, n) ==
  IF n = 0 THEN 0
  ELSE (IF (a % 2) + (b % 2) > 0 THEN 1 ELSE 0) + 2 * OrBits(a \div 2, b \div 2, n - 1)

\* The same on bytes, tabulated once.
XorByte == [a \in 0..255 |-> [b \in 0..255 |-> XorBits(a, b, 8)]]

OrByte == [a \in 0..255 |-> [b \in 0..255 |-> OrBits(a, b, 8)]]

Xor16(a, b) == XorByte[a \div 256][b \div 256] * 256 + XorByte[a % 256][b % 256]

Or16(a, b) == OrByte[a \div 256][b \div 256] * 256 + OrByte[a % 256][b % 256]

\* x ^ y
Xor32(x, y) == Word(Xor16(x[1], y[1]), Xor16(x[2], y[2]))

\* x | y
Or32(x, y) == Word(Or16(x[1], y[1]), Or16(x[2], y[2]))

\* x << s for a shift count s >= 0: Go shifts in zeros, and a count of 32 or
\* more leaves 0.
Shl32(x, s) ==
  IF s >= 32 THEN Zero32
  ELSE IF s >= 16 THEN Word((x[2] % (2 ^ (32 - s))) * (2 ^ (s - 16)), 0)
  ELSE Word((x[1] % (2 ^ (16 - s))) * (2 ^ s) + (x[2] \div (2 ^ (16 - s))),
            (x[2] % (2 ^ (16 - s))) * (2 ^ s))

\* x >> s for a shift count s >= 0
Shr32(x, s) ==
  IF s >= 32 THEN Zero32
  ELSE IF s >= 16 THEN Word(0, x[1] \div (2 ^ (s - 16)))
  ELSE Word(x[1] \div (2 ^ s),
            (x[1] % (2 ^ s)) * (2 ^ (16 - s)) + (x[2] \div (2 ^ s)))

\* Faulty variant: the mask one bit too wide.
And63(x) == x[2] % 64

\* x & 31, as the shift count it is used for
And31(x) == x[2] % 32

\* 32 - rot on uint32, as a shift count: for rot > 32 the difference wraps to
\* 2^32 + 32 - rot, a count of 32 or more.
Sub32From32(rot) == IF rot <= 32 THEN 32 - rot ELSE 32

rotl32(k, rot) == Or32(Shl32(k, rot), Shr32(k, Sub32From32(rot)))

\* Faulty variant: a shift, the bits shifted out lost.
rotr32Shift(k, rot) == Shr32(k, rot)

rotr32(k, rot) == Or32(Shr32(k, rot), Shl32(k, Sub32From32(rot)))

\* ------------------------------------------------------------ constants

rounds == 12

roundKeys == 2 * (rounds + 1)

keyWords == 4

KeySize == 16

\* Faulty variant: two digits of skeytable[4] transposed.
skeytableTypo ==
  << Word(\hb7e1, \h5163), Word(\h5618, \hcb1c), Word(\hf450, \h44d5), Word(\h9287, \hbe8e),
     Word(\h30bf, \h3874), Word(\hcef6, \hb200), Word(\h6d2e, \h2bb9), Word(\h0b65, \ha572),
     Word(\ha99d, \h1f2b), Word(\h47d4, \h98e4), Word(\he60c, \h129d), Word(\h8443, \h8c56),
     Word(\h227b, \h060f), Word(\hc0b2, \h7fc8), Word(\h5ee9, \hf981), Word(\hfd21, \h733a),
     Word(\h9b58, \hecf3), Word(\h3990, \h66ac), Word(\hd7c7, \he065), Word(\h75ff, \h5a1e),
     Word(\h1436, \hd3d7), Word(\hb26e, \h4d90), Word(\h50a5, \hc749), Word(\heedd, \h4102),
     Word(\h8d14, \hbabb), Word(\h2b4c, \h3474) >>

\* The package-level table, as the literal of src/rc5.go writes it.
skeytableLit ==
  << Word(\hb7e1, \h5163), Word(\h5618, \hcb1c), Word(\hf450, \h44d5), Word(\h9287, \hbe8e),
     Word(\h30bf, \h3847), Word(\hcef6, \hb200), Word(\h6d2e, \h2bb9), Word(\h0b65, \ha572),
     Word(\ha99d, \h1f2b), Word(\h47d4, \h98e4), Word(\he60c, \h129d), Word(\h8443, \h8c56),
     Word(\h227b, \h060f), Word(\hc0b2, \h7fc8), Word(\h5ee9, \hf981), Word(\hfd21, \h733a),
     Word(\h9b58, \hecf3), Word(\h3990, \h66ac), Word(\hd7c7, \he065), Word(\h75ff, \h5a1e),
     Word(\h1436, \hd3d7), Word(\hb26e, \h4d90), Word(\h50a5, \hc749), Word(\heedd, \h4102),
     Word(\h8d14, \hbabb), Word(\h2b4c, \h3474) >>

\* The same table, as the literal of src/unnamed/part_000 writes it.
skeytableLit_bits ==
  << Word(\hb7e1, \h5163), Word(\h5618, \hcb1c), Word(\hf450, \h44d5), Word(\h9287, \hbe8e),
     Word(\h30bf, \h3847), Word(\hcef6, \hb200), Word(\h6d2e, \h2bb9), Word(\h0b65, \ha572),
     Word(\ha99d, \h1f2b), Word(\h47d4, \h98e4), Word(\he60c, \h129d), Word(\h8443, \h8c56),
     Word(\h227b, \h060f), Word(\hc0b2, \h7fc8), Word(\h5ee9, \hf981), Word(\hfd21, \h733a),
     Word(\h9b58, \hecf3), Word(\h3990, \h66ac), Word(\hd7c7, \he065), Word(\h75ff, \h5a1e),
     Word(\h1436, \hd3d7), Word(\hb26e, \h4d90), Word(\h50a5, \hc749), Word(\heedd, \h4102),
     Word(\h8d14, \hbabb), Word(\h2b4c, \h3474) >>

\* ------------------------------------------------------------ bytes and slices

\* b[from:]
SliceFrom(b, from) == SubSeq(b, from + 1, Len(b))

\* uint32(b[0]) | uint32(b[1])<<8 | uint32(b[2])<<16 | uint32(b[3])<<24
getUint32(b) ==
  Or32(Or32(Word(0, At(b, 0)), Shl32(Word(0, At(b, 1)), 8)),
       Or32(Shl32(Word(0, At(b, 2)), 16), Shl32(Word(0, At(b, 3)), 24)))

\* byte(v)
Byte(v) == v[2] % 256

\* b[0] = byte(v); b[1] = byte(v >> 8); b[2] = byte(v >> 16); b[3] = byte(v >> 24):
\* the bytes of b after the four stores
putUint32(b, v) ==
  Put(Put(Put(Put(b, 0, Byte(v)), 1, Byte(Shr32(v, 8))), 2, Byte(Shr32(v, 16))),
      3, Byte(Shr32(v, 24)))

\* The storage buf after a callee has stored through the slice buf[off:].
StoreSlice(buf, off, s) == SubSeq(buf, 1, off) \o s

\* copy(dst, src): min(len(dst), len(src)) elements
Copy(dst, src) ==
  LET m == IF Len(src) < Len(dst) THEN Len(src) ELSE Len(dst)
  IN  SubSeq(src, 1, m) \o SubSeq(dst, m + 1, Len(dst))

\* ------------------------------------------------------------ calls
(***************************************************************************)
(* The memory a call works on is h = [skeytable, rk, bufs]: the package's  *)
(* table, the rk array of every allocated rc5cipher (<<>> for one not      *)
(* allocated) and the callers' byte buffers.  A call in progress is a      *)
(* frame f: its statement (pc, named after the line of src/rc5.go it is    *)
(* about to run), its arguments and its locals.  Each ...Step operator     *)
(* runs the statement at pc and returns [f, h] after it.                   *)
(*                                                                         *)
(* Five fields of a frame are history, not program state: rot (the        *)
(* rotation the last statement performed), reads (the rk indices an        *)
(* Encrypt or Decrypt has read so far) and upd (how many times New's       *)
(* mixing loop has stored each rk word), key0 and src0 (the key and the       *)
(* source bytes the call was started with).                                *)
(***************************************************************************)

\* The nil cipher.Block; the ciphers allocated are 1, 2, ...
NilCipher == 0

\* The nil error
NoError == <<>>

NotMade == [key |-> <<>>, rk |-> <<>>]

NoRot == [fn |-> "none", k |-> Zero32, rot |-> 0, out |-> Zero32]

ZeroCounts == [n \in 1..roundKeys |-> 0]

ZeroRk == [n \in 1..roundKeys |-> Zero32]

IdleFrame ==
  [op |-> "idle", pc |-> "idle", c |-> 0, dst |-> 0, src |-> 0, key |-> <<>>,
   L |-> <<>>, A |-> Zero32, B |-> Zero32, i |-> 0, j |-> 0, k |-> 0,
   kidx |-> 0, r |-> 0, retc |-> NilCipher, reterr |-> NoError,
   rot |-> NoRot, reads |-> <<>>, upd |-> ZeroCounts, key0 |-> <<>>, src0 |-> <<>>]

\* The frame of New(key) at its first statement.
NewFrame(key) ==
  [IdleFrame EXCEPT !.op = "New", !.pc = "n41", !.key = key, !.key0 = key]

\* The frame of c.Encrypt(dst, src) at its first statement; dst and src name
\* caller buffers.
EncryptFrame(c, dst, src) ==
  [IdleFrame EXCEPT !.op = "Encrypt", !.pc = "e79", !.c = c, !.dst = dst, !.src = src]

DecryptFrame(c, dst, src) ==
  [IdleFrame EXCEPT !.op = "Decrypt", !.pc = "d96", !.c = c, !.dst = dst, !.src = src]

\* KeySizeError(l)
KeySizeError(l) == <<"KeySizeError", l>>

InRange(idx) == idx >= 0 /\ idx < roundKeys

\* An index expression out of 0..roundKeys-1 panics.
Panic(f, h) == [f |-> [f EXCEPT !.pc = "panic"], h |-> h]

\* c := &rc5cipher{}: a cipher not allocated before, its rk zeroed
Alloc(h) == CHOOSE c \in DOMAIN h.rk : h.rk[c] = <<>> /\ \A d \in DOMAIN h.rk : h.rk[d] = <<>> => c <= d

\* Faulty variant: the arguments of copy exchanged.
CopyTableReversed(h, c) == [h EXCEPT !.skeytable = Copy(h.skeytable, h.rk[c])]

\* copy(c.rk[:], skeytable)
CopyTable(h, c) == [h EXCEPT !.rk[c] = Copy(h.rk[c], h.skeytable)]

\* c.rk[i] = rotl32(c.rk[i]+(A+B), 3); A = c.rk[i]
MixS(f, h) ==
  LET k   == Add32(At(h.rk[f.c], f.i), Add32(f.A, f.B))
      out == rotl32(k, 3)
  IN  [f |-> [f EXCEPT !.A = out, !.pc = "n65",
                       !.rot = [fn |-> "rotl32", k |-> k, rot |-> 3, out |-> out],
                       !.upd = Put(f.upd, f.i, At(f.upd, f.i) + 1)],
       h |-> [h EXCEPT !.rk[f.c] = Put(h.rk[f.c], f.i, out)]]

\* Faulty variant: i advanced without the % roundKeys.
MixLNoWrap(f, h) ==
  LET k   == Add32(At(f.L, f.j), Add32(f.A, f.B))
      rot == And31(Add32(f.A, f.B))
      out == rotl32(k, rot)
  IN  [f |-> [f EXCEPT !.L = Put(f.L, f.j, out), !.B = out,
                       !.i = f.i + 1, !.j = (f.j + 1) % keyWords,
                       !.k = f.k + 1,
                       !.pc = IF f.k + 1 < 3 * roundKeys THEN "n63" ELSE "n72",
                       !.rot = [fn |-> "rotl32", k |-> k, rot |-> rot, out |-> out]],
       h |-> h]

\* L[j] = rotl32(L[j]+(A+B), (A+B)&31); B = L[j]; then the loop's i, j and k
MixL(f, h) ==
  LET k   == Add32(At(f.L, f.j), Add32(f.A, f.B))
      rot == And31(Add32(f.A, f.B))
      out == rotl32(k, rot)
  IN  [f |-> [f EXCEPT !.L = Put(f.L, f.j, out), !.B = out,
                       !.i = (f.i + 1) % roundKeys, !.j = (f.j + 1) % keyWords,
                       !.k = f.k + 1,
                       !.pc = IF f.k + 1 < 3 * roundKeys THEN "n63" ELSE "n72",
                       !.rot = [fn |-> "rotl32", k |-> k, rot |-> rot, out |-> out]],
       h |-> h]

\* Faulty variant: only a key too short is refused.
KeyTooShort(l) == l < KeySize

\* if l := len(key); l != 16
BadKeySize(l) == l # KeySize

NewStep(f, h) ==
  CASE f.pc = "n41" ->
         IF BadKeySize(Len(f.key))
         THEN [f |-> [f EXCEPT !.pc = "ret", !.retc = NilCipher,
                               !.reterr = KeySizeError(Len(f.key))],
               h |-> h]
         ELSE [f |-> [f EXCEPT !.pc = "n45"], h |-> h]
    [] f.pc = "n45" ->
         LET c == Alloc(h)
         IN  [f |-> [f EXCEPT !.pc = "n52", !.c = c, !.i = 0,
                              !.L = [n \in 1..keyWords |-> Zero32]],
              h |-> [h EXCEPT !.rk[c] = ZeroRk]]
    [] f.pc = "n52" ->
         [f |-> [f EXCEPT !.L = Put(f.L, f.i, getUint32(f.key)),
                          !.key = SliceFrom(f.key, 4), !.i = f.i + 1,
                          !.pc = IF f.i + 1 < keyWords THEN "n52" ELSE "n56"],
          h |-> h]
    [] f.pc = "n56" ->
         [f |-> [f EXCEPT !.A = Zero32, !.B = Zero32, !.i = 0, !.j = 0, !.k = 0,
                          !.pc = IF 0 < 3 * roundKeys THEN "n63" ELSE "n72"],
          h |-> CopyTable(h, f.c)]
    [] f.pc = "n63" -> IF InRange(f.i) THEN MixS(f, h) ELSE Panic(f, h)
    [] f.pc = "n65" -> IF f.j >= 0 /\ f.j < keyWords THEN MixL(f, h) ELSE Panic(f, h)
    [] f.pc = "n72" ->
         [f |-> [f EXCEPT !.pc = "ret", !.retc = f.c, !.reterr = NoError, !.rot = NoRot],
          h |-> h]

\* Faulty variant: the sum is kept in c.rk[kidx] as well.
EncRoundAStore(f, h) ==
  LET k   == Xor32(f.A, f.B)
      rot == And31(f.B)
      out == rotl32(k, rot)
  IN  [f |-> [f EXCEPT !.A = Add32(out, At(h.rk[f.c], f.kidx)), !.pc = "e86",
                       !.rot = [fn |-> "rotl32", k |-> k, rot |-> rot, out |-> out],
                       !.reads = Append(f.reads, f.kidx)],
       h |-> [h EXCEPT !.rk[f.c] = Put(@, f.kidx, Add32(out, At(@, f.kidx)))]]

\* A = rotl32(A^B, B&31) + c.rk[kidx]
EncRoundA(f, h) ==
  LET k   == Xor32(f.A, f.B)
      rot == And31(f.B)
      out == rotl32(k, rot)
  IN  [f |-> [f EXCEPT !.A = Add32(out, At(h.rk[f.c], f.kidx)), !.pc = "e86",
                       !.rot = [fn |-> "rotl32", k |-> k, rot |-> rot, out |-> out],
                       !.reads = Append(f.reads, f.kidx)],
       h |-> h]

\* Faulty variant: c.rk[kidx] where c.rk[kidx+1] is meant.
EncRoundBSameKey(f, h) ==
  LET k   == Xor32(f.B, f.A)
      rot == And31(f.A)
      out == rotl32(k, rot)
  IN  [f |-> [f EXCEPT !.B = Add32(out, At(h.rk[f.c], f.kidx)),
                       !.kidx = f.kidx + 2, !.r = f.r + 1,
                       !.pc = IF f.r + 1 < rounds THEN "e85" ELSE "e90",
                       !.rot = [fn |-> "rotl32", k |-> k, rot |-> rot, out |-> out],
                       !.reads = Append(f.reads, f.kidx)],
       h |-> h]

\* B = rotl32(B^A, A&31) + c.rk[kidx+1]; kidx += 2; then the loop's r
EncRoundB(f, h) ==
  LET k   == Xor32(f.B, f.A)
      rot == And31(f.A)
      out == rotl32(k, rot)
  IN  [f |-> [f EXCEPT !.B = Add32(out, At(h.rk[f.c], f.kidx + 1)),
                       !.kidx = f.kidx + 2, !.r = f.r + 1,
                       !.pc = IF f.r + 1 < rounds THEN "e85" ELSE "e90",
                       !.rot = [fn |-> "rotl32", k |-> k, rot |-> rot, out |-> out],
                       !.reads = Append(f.reads, f.kidx + 1)],
       h |-> h]

\* putUint32(dst, A)
EncStoreA(f, h) ==
  [f |-> [f EXCEPT !.pc = "e91", !.rot = NoRot],
   h |-> [h EXCEPT !.bufs[f.dst] = StoreSlice(@, 0, putUint32(SliceFrom(@, 0), f.A))]]

\* putUint32(dst[4:], B)
EncStoreB(f, h) ==
  [f |-> [f EXCEPT !.pc = "ret", !.rot = NoRot],
   h |-> [h EXCEPT !.bufs[f.dst] = StoreSlice(@, 4, putUint32(SliceFrom(@, 4), f.B))]]

\* Faulty variant: dst is cleared once A is loaded.
EncLoadAClearDst(f, h) ==
  [f |-> [f EXCEPT !.A = Add32(getUint32(h.bufs[f.src]), At(h.rk[f.c], 0)),
                   !.pc = "e80", !.reads = Append(f.reads, 0)],
   h |-> [h EXCEPT !.bufs[f.dst] = [n \in 1..Len(@) |-> 0]]]

\* A := getUint32(src) + c.rk[0]
EncLoadA(f, h) ==
  [f |-> [f EXCEPT !.A = Add32(getUint32(h.bufs[f.src]), At(h.rk[f.c], 0)),
                   !.pc = "e80", !.reads = Append(f.reads, 0)],
   h |-> h]

EncryptStep(f, h) ==
  CASE f.pc = "e79" -> EncLoadA(f, h)
    [] f.pc = "e80" ->
         [f |-> [f EXCEPT !.B = Add32(getUint32(SliceFrom(h.bufs[f.src], 4)),
                                      At(h.rk[f.c], 1)),
                          !.kidx = 2, !.r = 0,
                          !.pc = IF 0 < rounds THEN "e85" ELSE "e90",
                          !.reads = Append(f.reads, 1)],
          h |-> h]
    [] f.pc = "e85" -> IF InRange(f.kidx) THEN EncRoundA(f, h) ELSE Panic(f, h)
    [] f.pc = "e86" -> IF InRange(f.kidx + 1) THEN EncRoundB(f, h) ELSE Panic(f, h)
    [] f.pc = "e90" -> EncStoreA(f, h)
    [] f.pc = "e91" -> EncStoreB(f, h)

\* B = rotr32(B-c.rk[kidx+1], A&31) ^ A
DecRoundB(f, h) ==
  LET k   == Sub32(f.B, At(h.rk[f.c], f.kidx + 1))
      rot == And31(f.A)
      out == rotr32(k, rot)
  IN  [f |-> [f EXCEPT !.B = Xor32(out, f.A), !.pc = "d103",
                       !.rot = [fn |-> "rotr32", k |-> k, rot |-> rot, out |-> out],
                       !.reads = Append(f.reads, f.kidx + 1)],
       h |-> h]

\* A = rotr32(A-c.rk[kidx], B&31) ^ B; kidx -= 2; then the loop's r
DecRoundA(f, h) ==
  LET k   == Sub32(f.A, At(h.rk[f.c], f.kidx))
      rot == And31(f.B)
      out == rotr32(k, rot)
  IN  [f |-> [f EXCEPT !.A = Xor32(out, f.B),
                       !.kidx = f.kidx - 2, !.r = f.r + 1,
                       !.pc = IF f.r + 1 < rounds THEN "d102" ELSE "d107",
                       !.rot = [fn |-> "rotr32", k |-> k, rot |-> rot, out |-> out],
                       !.reads = Append(f.reads, f.kidx)],
       h |-> h]

\* putUint32(dst[4:], B-c.rk[1])
DecStoreB(f, h) ==
  [f |-> [f EXCEPT !.pc = "d108", !.rot = NoRot, !.reads = Append(f.reads, 1)],
   h |-> [h EXCEPT !.bufs[f.dst] =
            StoreSlice(@, 4, putUint32(SliceFrom(@, 4), Sub32(f.B, At(h.rk[f.c], 1))))]]

\* putUint32(dst, A-c.rk[0])
DecStoreA(f, h) ==
  [f |-> [f EXCEPT !.pc = "ret", !.rot = NoRot, !.reads = Append(f.reads, 0)],
   h |-> [h EXCEPT !.bufs[f.dst] =
            StoreSlice(@, 0, putUint32(SliceFrom(@, 0), Sub32(f.A, At(h.rk[f.c], 0))))]]

DecryptStep(f, h) ==
  CASE f.pc = "d96" ->
         [f |-> [f EXCEPT !.A = getUint32(h.bufs[f.src]), !.pc = "d97"], h |-> h]
    [] f.pc = "d97" ->
         [f |-> [f EXCEPT !.B = getUint32(SliceFrom(h.bufs[f.src], 4)),
                          !.kidx = 2 * rounds, !.r = 0,
                          !.pc = IF 0 < rounds THEN "d102" ELSE "d107"],
          h |-> h]
    [] f.pc = "d102" -> IF InRange(f.kidx + 1) THEN DecRoundB(f, h) ELSE Panic(f, h)
    [] f.pc = "d103" -> IF InRange(f.kidx) THEN DecRoundA(f, h) ELSE Panic(f, h)
    [] f.pc = "d107" -> DecStoreB(f, h)
    [] f.pc = "d108" -> DecStoreA(f, h)

\* One statement of the call f.
Step(f, h) ==
  CASE f.op = "New"     -> NewStep(f, h)
    [] f.op = "Encrypt" -> EncryptStep(f, h)
    [] f.op = "Decrypt" -> DecryptStep(f, h)

Finished(f) == f.pc \in {"ret", "panic"}

\* No call runs more statements than this: New's are the most, its length test,
\* its allocation, keyWords loads, the copy, two per mixing round and the return.
MaxStatements == 4 + keyWords + 2 * 3 * roundKeys

\* n statements of the call f, or as many as it has left.
RECURSIVE RunFor(_, _, _)
RunFor(f, h, n) ==
  IF n = 0 \/ Finished(f) THEN [f |-> f, h |-> h]
  ELSE IF n = 1 THEN Step(f, h)
  ELSE LET m == RunFor(f, h, n \div 2)
       IN  RunFor(m.f, m.h, n - (n \div 2))

\* The call f run from its first statement to its return, nothing else running.
Run(f, h) == RunFor(f, h, MaxStatements)

\* ------------------------------------------------------------ part_000
(***************************************************************************)
(* The revision of the package in src/unnamed/part_000: the same calls,    *)
(* with math/bits and encoding/binary in place of rotl32, rotr32,          *)
(* getUint32 and putUint32.  Its statements are named after its own lines  *)
(* (m35 ... for New, f73 ... for Encrypt, g90 ... for Decrypt).            *)
(*                                                                         *)
(* A Go int is <<sign, magnitude>>, sign 1 or -1 and the magnitude a       *)
(* uint32; w is the width of int on the platform, 32 or 64.                *)
(***************************************************************************)

\* int(x) for a uint32 x: on a 32-bit int, 2^31 and above wrap to x - 2^32
IntOf(x, w) ==
  IF w = 32 /\ x[1] >= 32768 THEN <<-1, Sub32(Zero32, x)>> ELSE <<1, x>>

\* Faulty variant: the sign is not changed.
NegIntDropped(k, w) == k

\* -k: -0 is 0, and on a 32-bit int -(-2^31) wraps to -2^31
NegInt(k, w) ==
  IF k[2] = Zero32 THEN k
  ELSE IF w = 32 /\ k = <<-1, Word(32768, 0)>> THEN k
  ELSE <<-k[1], k[2]>>

\* uint(k) & (n - 1) of bits.RotateLeft32, n = 32: the low five bits of k in
\* two's complement
UintAnd31(k) ==
  IF k[1] = 1 THEN k[2][2] % 32 ELSE (32 - (k[2][2] % 32)) % 32

\* bits.RotateLeft32(x, k): s := uint(k) & (n - 1); return x<<s | x>>(n-s)
RotateLeft32(x, k) ==
  LET s == UintAnd31(k) IN Or32(Shl32(x, s), Shr32(x, 32 - s))

\* binary.LittleEndian.Uint32(b)
LittleEndianUint32(b) ==
  Or32(Or32(Word(0, At(b, 0)), Shl32(Word(0, At(b, 1)), 8)),
       Or32(Shl32(Word(0, At(b, 2)), 16), Shl32(Word(0, At(b, 3)), 24)))

\* binary.LittleEndian.PutUint32(b, v): the bytes of b after it
LittleEndianPutUint32(b, v) ==
  Put(Put(Put(Put(b, 0, Byte(v)), 1, Byte(Shr32(v, 8))), 2, Byte(Shr32(v, 16))),
      3, Byte(Shr32(v, 24)))

\* b[from:to]
Slice(b, from, to) == SubSeq(b, from + 1, to)

\* The storage buf after a callee has stored through the slice buf[from:to].
StoreSliceTo(buf, from, to, s) == SubSeq(buf, 1, from) \o s \o SubSeq(buf, to + 1, Len(buf))

NewFrame_bits(key) ==
  [IdleFrame EXCEPT !.op = "New", !.pc = "m35", !.key = key, !.key0 = key]

EncryptFrame_bits(c, dst, src) ==
  [IdleFrame EXCEPT !.op = "Encrypt", !.pc = "f73", !.c = c, !.dst = dst, !.src = src]

DecryptFrame_bits(c, dst, src) ==
  [IdleFrame EXCEPT !.op = "Decrypt", !.pc = "g90", !.c = c, !.dst = dst, !.src = src]

NewStep_bits(f, h, w) ==
  CASE f.pc = "m35" ->
         IF Len(f.key) # KeySize
         THEN [f |-> [f EXCEPT !.pc = "ret", !.retc = NilCipher,
                               !.reterr = KeySizeError(Len(f.key))],
               h |-> h]
         ELSE [f |-> [f EXCEPT !.pc = "m39"], h |-> h]
    [] f.pc = "m39" ->
         LET c == Alloc(h)
         IN  [f |-> [f EXCEPT !.pc = "m46", !.c = c, !.i = 0,
                              !.L = [n \in 1..keyWords |-> Zero32]],
              h |-> [h EXCEPT !.rk[c] = ZeroRk]]
    [] f.pc = "m46" ->
         [f |-> [f EXCEPT !.L = Put(f.L, f.i, LittleEndianUint32(Slice(f.key, 0, 4))),
                          !.key = SliceFrom(f.key, 4), !.i = f.i + 1,
                          !.pc = IF f.i + 1 < keyWords THEN "m46" ELSE "m50"],
          h |-> h]
    [] f.pc = "m50" ->
         [f |-> [f EXCEPT !.A = Zero32, !.B = Zero32, !.i = 0, !.j = 0, !.k = 0,
                          !.pc = IF 0 < 3 * roundKeys THEN "m57" ELSE "m66"],
          h |-> [h EXCEPT !.rk[f.c] = Copy(h.rk[f.c], h.skeytable)]]
    [] f.pc = "m57" ->
         \* c.rk[i] = bits.RotateLeft32(c.rk[i]+(A+B), 3); A = c.rk[i]
         LET out == RotateLeft32(Add32(At(h.rk[f.c], f.i), Add32(f.A, f.B)), <<1, Word(0, 3)>>)
         IN  [f |-> [f EXCEPT !.A = out, !.pc = "m59"],
              h |-> [h EXCEPT !.rk[f.c] = Put(h.rk[f.c], f.i, out)]]
    [] f.pc = "m59" ->
         \* L[j] = bits.RotateLeft32(L[j]+(A+B), int(A+B)); B = L[j]
         LET out == RotateLeft32(Add32(At(f.L, f.j), Add32(f.A, f.B)),
                                 IntOf(Add32(f.A, f.B), w))
         IN  [f |-> [f EXCEPT !.L = Put(f.L, f.j, out), !.B = out,
                              !.i = (f.i + 1) % roundKeys, !.j = (f.j + 1) % keyWords,
                              !.k = f.k + 1,
                              !.pc = IF f.k + 1 < 3 * roundKeys THEN "m57" ELSE "m66"],
              h |-> h]
    [] f.pc = "m66" ->
         [f |-> [f EXCEPT !.pc = "ret", !.retc = f.c, !.reterr = NoError], h |-> h]

EncryptStep_bits(f, h, w) ==
  CASE f.pc = "f73" ->
         [f |-> [f EXCEPT !.A = Add32(LittleEndianUint32(Slice(h.bufs[f.src], 0, 4)),
                                      At(h.rk[f.c], 0)),
                          !.pc = "f74"],
          h |-> h]
    [] f.pc = "f74" ->
         [f |-> [f EXCEPT !.B = Add32(LittleEndianUint32(Slice(h.bufs[f.src], 4, 8)),
                                      At(h.rk[f.c], 1)),
                          !.kidx = 2, !.r = 0,
                          !.pc = IF 0 < rounds THEN "f79" ELSE "f84"],
          h |-> h]
    [] f.pc = "f79" ->
         \* A = bits.RotateLeft32(A^B, int(B)) + c.rk[kidx]
         [f |-> [f EXCEPT !.A = Add32(RotateLeft32(Xor32(f.A, f.B), IntOf(f.B, w)),
                                      At(h.rk[f.c], f.kidx)),
                          !.pc = "f80"],
          h |-> h]
    [] f.pc = "f80" ->
         \* B = bits.RotateLeft32(B^A, int(A)) + c.rk[kidx+1]; kidx += 2
         [f |-> [f EXCEPT !.B = Add32(RotateLeft32(Xor32(f.B, f.A), IntOf(f.A, w)),
                                      At(h.rk[f.c], f.kidx + 1)),
                          !.kidx = f.kidx + 2, !.r = f.r + 1,
                          !.pc = IF f.r + 1 < rounds THEN "f79" ELSE "f84"],
          h |-> h]
    [] f.pc = "f84" ->
         [f |-> [f EXCEPT !.pc = "f85"],
          h |-> [h EXCEPT !.bufs[f.dst] =
                   StoreSliceTo(@, 0, 4, LittleEndianPutUint32(Slice(@, 0, 4), f.A))]]
    [] f.pc = "f85" ->
         [f |-> [f EXCEPT !.pc = "ret"],
          h |-> [h EXCEPT !.bufs[f.dst] =
                   StoreSliceTo(@, 4, 8, LittleEndianPutUint32(Slice(@, 4, 8), f.B))]]

DecryptStep_bits(f, h, w) ==
  CASE f.pc = "g90" ->
         [f |-> [f EXCEPT !.A = LittleEndianUint32(Slice(h.bufs[f.src], 0, 4)),
                          !.pc = "g91"],
          h |-> h]
    [] f.pc = "g91" ->
         [f |-> [f EXCEPT !.B = LittleEndianUint32(Slice(h.bufs[f.src], 4, 8)),
                          !.kidx = 2 * rounds, !.r = 0,
                          !.pc = IF 0 < rounds THEN "g96" ELSE "g101"],
          h |-> h]
    [] f.pc = "g96" ->
         \* B = bits.RotateLeft32(B-c.rk[kidx+1], -int(A)) ^ A
         [f |-> [f EXCEPT !.B = Xor32(RotateLeft32(Sub32(f.B, At(h.rk[f.c], f.kidx + 1)),
                                                   NegInt(IntOf(f.A, w), w)),
                                      f.A),
                          !.pc = "g97"],
          h |-> h]
    [] f.pc = "g97" ->
         \* A = bits.RotateLeft32(A-c.rk[kidx], -int(B)) ^ B; kidx -= 2
         [f |-> [f EXCEPT !.A = Xor32(RotateLeft32(Sub32(f.A, At(h.rk[f.c], f.kidx)),
                                                   NegInt(IntOf(f.B, w), w)),
                                      f.B),
                          !.kidx = f.kidx - 2, !.r = f.r + 1,
                          !.pc = IF f.r + 1 < rounds THEN "g96" ELSE "g101"],
          h |-> h]
    [] f.pc = "g101" ->
         [f |-> [f EXCEPT !.pc = "g102"],
          h |-> [h EXCEPT !.bufs[f.dst] =
                   StoreSliceTo(@, 4, 8, LittleEndianPutUint32(Slice(@, 4, 8),
                                                               Sub32(f.B, At(h.rk[f.c], 1))))]]
    [] f.pc = "g102" ->
         [f |-> [f EXCEPT !.pc = "ret"],
          h |-> [h EXCEPT !.bufs[f.dst] =
                   StoreSliceTo(@, 0, 4, LittleEndianPutUint32(Slice(@, 0, 4),
                                                               Sub32(f.A, At(h.rk[f.c], 0))))]]

\* One statement of the call f of part_000.
Step_bits(f, h, w) ==
  CASE f.op = "New"     -> NewStep_bits(f, h, w)
    [] f.op = "Encrypt" -> EncryptStep_bits(f, h, w)
    [] f.op = "Decrypt" -> DecryptStep_bits(f, h, w)

\* ------------------------------------------------------------ the program
(***************************************************************************)
(* Goroutine 1 is the program's main goroutine; every goroutine owns two   *)
(* 8-byte buffers, x and y.  Four specifications run the package:          *)
(*   Spec      goroutine 1 calls New, Encrypt and Decrypt, a call a step;  *)
(*   SpecStmt  the same calls, a statement a step;                         *)
(*   SpecConc  after construction, every goroutine calls Encrypt or        *)
(*             Decrypt on the one cipher, from x into y, a statement a     *)
(*             step, the goroutines interleaved;                           *)
(*   SpecEquiv src/rc5.go and src/unnamed/part_000 run side by side.       *)
(***************************************************************************)

MaxInst == 2

NumProcs == 2

MaxCalls == 3

MaxStmtCalls == 2

MaxEquivCalls == 2

Inst == 1..MaxInst

Proc == 1..NumProcs

Buf == Proc \X {"x", "y"}

KeyOfLen(l, b) == [n \in 1..l |-> (b * n) % 256]

\* 16-byte keys: all zero, and the key of the second RC5-32/12/16 example of
\* Rivest's paper.
ValidKeys ==
  { KeyOfLen(KeySize, 0),
    <<145, 95, 70, 25, 190, 65, 178, 81, 99, 85, 165, 1, 16, 169, 206, 145>> }

BadKeys == { KeyOfLen(l, 7) : l \in {0, 1, 15, 17, 32} }

Keys == ValidKeys \cup BadKeys

ZeroBlock == <<0, 0, 0, 0, 0, 0, 0, 0>>

BlockOf(p) == [n \in 1..8 |-> (p * (29 * n + 7)) % 256]

Blocks == { ZeroBlock, <<33, 165, 219, 238, 21, 75, 143, 109>> }

VARIABLES
  skeytable,  \* the package's table
  rk,         \* rk[c]: the round keys of cipher c, <<>> until c is allocated
  bufs,       \* the goroutines' byte buffers
  frames,     \* frames[p]: the call goroutine p is in
  made,       \* history: made[c] = what New returned c with, NotMade before
  last,       \* history: the call that returned last
  prev,       \* history: the call that returned before it
  calls,      \* how many calls have been started
  other       \* SpecEquiv: the part_000 build, its call f, its memory h and
              \* the width w of its int

vars == <<skeytable, rk, bufs, frames, made, last, prev, calls, other>>

Heap == [skeytable |-> skeytable, rk |-> rk, bufs |-> bufs]

NoCall == [op |-> "none", c |-> 0, key |-> <<>>, src |-> <<>>, dst |-> <<>>,
           in |-> <<>>, out |-> <<>>, retc |-> NilCipher, reterr |-> NoError,
           pc |-> "none"]

\* What the caller of the finished call f has in hand.
Returned(f, h) ==
  [op |-> f.op, c |-> f.c, key |-> f.key0, src |-> f.src, dst |-> f.dst,
   in |-> f.src0, out |-> IF f.op = "New" THEN <<>> ELSE h.bufs[f.dst],
   retc |-> f.retc, reterr |-> f.reterr, pc |-> f.pc]

Made(f, h) ==
  IF f.op = "New" /\ f.pc = "ret" /\ f.retc # NilCipher
  THEN [made EXCEPT ![f.retc] = [key |-> f.key0, rk |-> h.rk[f.retc]]]
  ELSE made

Constructed == {c \in Inst : made[c] # NotMade}

NoOther == [f |-> IdleFrame, h |-> <<>>, w |-> 64]

\* The program before its first call.
Start ==
  /\ skeytable = skeytableLit
  /\ rk = [c \in Inst |-> <<>>]
  /\ \E b \in Blocks :
       bufs = [d \in Buf |-> IF d = <<1, "x">> THEN b ELSE ZeroBlock]
  /\ frames = [p \in Proc |-> IdleFrame]
  /\ made = [c \in Inst |-> NotMade]
  /\ last = NoCall
  /\ prev = NoCall
  /\ calls = 0

Init == Start /\ other = NoOther

\* New can allocate: the model has MaxInst ciphers.
CanAlloc(key) == Len(key) = KeySize => \E c \in Inst : rk[c] = <<>>

StartEncrypt(c, dst, src) == [EncryptFrame(c, dst, src) EXCEPT !.src0 = bufs[src]]

StartDecrypt(c, dst, src) == [DecryptFrame(c, dst, src) EXCEPT !.src0 = bufs[src]]

\* ---- Spec: a call a step

\* A whole call: f from its first statement to its return.
Call(f) ==
  /\ calls < MaxCalls
  /\ \E r \in {Run(f, Heap)} :
       /\ calls' = calls + 1
       /\ skeytable' = r.h.skeytable
       /\ rk' = r.h.rk
       /\ bufs' = r.h.bufs
       /\ made' = Made(r.f, r.h)
       /\ prev' = last
       /\ last' = Returned(r.f, r.h)
       /\ UNCHANGED <<frames, other>>

New(key) == CanAlloc(key) /\ Call(NewFrame(key))

Encrypt(c, dst, src) == Call(StartEncrypt(c, dst, src))

Decrypt(c, dst, src) == Call(StartDecrypt(c, dst, src))

Own(p) == {p} \X {"x", "y"}

Next ==
  \/ \E key \in Keys : New(key)
  \/ \E c \in Constructed, dst \in Own(1), src \in Own(1) : Encrypt(c, dst, src)
  \/ \E c \in Constructed, dst \in Own(1), src \in Own(1) : Decrypt(c, dst, src)

Spec == Init /\ [][Next]_vars

\* ---- SpecStmt: a statement a step

\* Goroutine p enters the call f.
Entry(p, f) ==
  /\ frames[p].op = "idle"
  /\ frames' = [frames EXCEPT ![p] = f]
  /\ calls' = calls + 1
  /\ UNCHANGED <<skeytable, rk, bufs, made, last, prev>>

Enter(p, f) == Entry(p, f) /\ UNCHANGED other

\* Goroutine p runs the statement it is at.
Execute(p) ==
  /\ frames[p].op # "idle"
  /\ ~Finished(frames[p])
  /\ \E s \in {Step(frames[p], Heap)} :
       /\ frames' = [frames EXCEPT ![p] = s.f]
       /\ skeytable' = s.h.skeytable
       /\ rk' = s.h.rk
       /\ bufs' = s.h.bufs
  /\ UNCHANGED <<made, last, prev, calls>>

Statement(p) == Execute(p) /\ UNCHANGED other

\* The call of goroutine p returns to its caller.
Leave(p) ==
  /\ frames[p].pc = "ret"
  /\ frames' = [frames EXCEPT ![p] = IdleFrame]
  /\ made' = Made(frames[p], Heap)
  /\ prev' = last
  /\ last' = Returned(frames[p], Heap)
  /\ UNCHANGED <<skeytable, rk, bufs, calls>>

Return(p) == Leave(p) /\ UNCHANGED other

CallNew(key) ==
  calls < MaxStmtCalls /\ CanAlloc(key) /\ Enter(1, NewFrame(key))

CallEncrypt(c, dst, src) ==
  calls < MaxStmtCalls /\ Enter(1, StartEncrypt(c, dst, src))

CallDecrypt(c, dst, src) ==
  calls < MaxStmtCalls /\ Enter(1, StartDecrypt(c, dst, src))

NextStmt ==
  \/ \E key \in Keys : CallNew(key)
  \/ \E c \in Constructed, dst \in Own(1), src \in Own(1) : CallEncrypt(c, dst, src)
  \/ \E c \in Constructed, dst \in Own(1), src \in Own(1) : CallDecrypt(c, dst, src)
  \/ Statement(1)
  \/ Return(1)

SpecStmt == Init /\ [][NextStmt]_vars

\* ---- SpecConc: goroutines on one cipher

\* The state after c, err := New(key) for a valid key, every goroutine's x
\* holding its own block.
InitConc ==
  \E key \in ValidKeys :
    \E r \in {Run(NewFrame(key),
                  [skeytable |-> skeytableLit, rk |-> [c \in Inst |-> <<>>],
                   bufs |-> [d \in Buf |-> IF d[2] = "x" THEN BlockOf(d[1])
                                           ELSE ZeroBlock]])} :
      /\ skeytable = r.h.skeytable
      /\ rk = r.h.rk
      /\ bufs = r.h.bufs
      /\ frames = [p \in Proc |-> IdleFrame]
      /\ made = [c \in Inst |-> IF c = r.f.retc
                                THEN [key |-> key, rk |-> r.h.rk[c]] ELSE NotMade]
      /\ last = Returned(r.f, r.h)
      /\ prev = NoCall
      /\ calls = 0
      /\ other = NoOther

\* Goroutines start in the order of their numbers, one call each.
GoEncrypt(p, c) ==
  calls = p - 1 /\ Enter(p, StartEncrypt(c, <<p, "y">>, <<p, "x">>))

GoDecrypt(p, c) ==
  calls = p - 1 /\ Enter(p, StartDecrypt(c, <<p, "y">>, <<p, "x">>))

NextConc ==
  \/ \E p \in Proc, c \in Constructed : GoEncrypt(p, c)
  \/ \E p \in Proc, c \in Constructed : GoDecrypt(p, c)
  \/ \E p \in Proc : Statement(p)
  \/ \E p \in Proc : Return(p)

SpecConc == InitConc /\ [][NextConc]_vars

\* ---- SpecEquiv: the two revisions side by side

\* Both builds before their first call, given the same buffers; the int of the
\* part_000 build is 32 or 64 bits wide.
InitEquiv ==
  /\ Start
  /\ \E w \in {32, 64} : other = [f |-> IdleFrame, h |-> Heap, w |-> w]

\* The same call is made in both builds.
EquivEnter(f, g) ==
  /\ calls < MaxEquivCalls
  /\ other.f.op = "idle"
  /\ Entry(1, f)
  /\ other' = [other EXCEPT !.f = [g EXCEPT !.src0 = f.src0]]

EquivNew(key) == CanAlloc(key) /\ EquivEnter(NewFrame(key), NewFrame_bits(key))

EquivEncrypt(c, dst, src) ==
  EquivEnter(StartEncrypt(c, dst, src), EncryptFrame_bits(c, dst, src))

EquivDecrypt(c, dst, src) ==
  EquivEnter(StartDecrypt(c, dst, src), DecryptFrame_bits(c, dst, src))

\* Each build runs its next statement.
EquivStatement ==
  /\ Execute(1)
  /\ ~Finished(other.f)
  /\ \E s \in {Step_bits(other.f, other.h, other.w)} :
       other' = [other EXCEPT !.f = s.f, !.h = s.h]

\* Both calls return.
EquivReturn ==
  /\ Leave(1)
  /\ other.f.pc = "ret"
  /\ other' = [other EXCEPT !.f = IdleFrame]

NextEquiv ==
  \/ \E key \in Keys : EquivNew(key)
  \/ \E c \in Constructed, dst \in Own(1), src \in Own(1) : EquivEncrypt(c, dst, src)
  \/ \E c \in Constructed, dst \in Own(1), src \in Own(1) : EquivDecrypt(c, dst, src)
  \/ EquivStatement
  \/ EquivReturn

SpecEquiv == InitEquiv /\ [][NextEquiv]_vars

\* ------------------------------------------------------------ RC5-32/12/16
(***************************************************************************)
(* What the calls are checked against: RC5 with 32-bit words, 12 rounds    *)
(* and a 16-byte key, written from its definition (Rivest, "The RC5        *)
(* Encryption Algorithm") with a rotation that moves bits, not the         *)
(* shifts of rotl32.                                                       *)
(***************************************************************************)

Pw == Word(\hb7e1, \h5163)

Qw == Word(\h9e37, \h79b9)

\* Bit i of x, bit 0 the least significant.
Bit(x, i) == IF i >= 16 THEN (x[1] \div (2 ^ (i - 16))) % 2 ELSE (x[2] \div (2 ^ i)) % 2

\* The 16-bit number whose bit j is b[from + j].
RECURSIVE HalfOfBits(_, _, _)
HalfOfBits(b, from, n) ==
  IF n = 0 THEN 0 ELSE b[from] + 2 * HalfOfBits(b, from + 1, n - 1)

\* x rotated left by n: bit i of x becomes bit (i + n) mod 32.
CircularLeft(x, n) ==
  LET b == [j \in 0..31 |-> Bit(x, (j + 32 - (n % 32)) % 32)]
  IN  Word(HalfOfBits(b, 16, 16), HalfOfBits(b, 0, 16))

\* x rotated right by n: bit i of x becomes bit (i - n) mod 32.
CircularRight(x, n) ==
  LET b == [j \in 0..31 |-> Bit(x, (j + (n % 32)) % 32)]
  IN  Word(HalfOfBits(b, 16, 16), HalfOfBits(b, 0, 16))

\* The little-endian word of bytes b[off .. off+3] (b indexed from 0).
LEWord(b, off) ==
  Word(At(b, off + 3) * 256 + At(b, off + 2), At(b, off + 1) * 256 + At(b, off))

LEBytes(x) == <<x[2] % 256, x[2] \div 256, x[1] % 256, x[1] \div 256>>

Mod32(x) == x[2] % 32

\* S[0] = Pw; S[i] = S[i-1] + Qw
RECURSIVE RefTable(_)
RefTable(n) == IF n = 1 THEN <<Pw>>
               ELSE LET s == RefTable(n - 1) IN Append(s, Add32(s[n - 1], Qw))

\* One round of the key mixing.
RefMix(st) ==
  LET Si == CircularLeft(Add32(At(st.S, st.i), Add32(st.A, st.B)), 3)
      Lj == CircularLeft(Add32(At(st.L, st.j), Add32(Si, st.B)), Mod32(Add32(Si, st.B)))
  IN  [S |-> Put(st.S, st.i, Si), L |-> Put(st.L, st.j, Lj), A |-> Si, B |-> Lj,
       i |-> (st.i + 1) % 26, j |-> (st.j + 1) % 4]

\* n rounds of the key mixing, by halves (the test of st.i makes TLC evaluate
\* st before it descends; i is always in 0..25).
RECURSIVE RefMixFor(_, _)
RefMixFor(st, n) ==
  IF n = 0 \/ st.i \notin 0..25 THEN st
  ELSE IF n = 1 THEN RefMix(st)
  ELSE LET m == RefMixFor(st, n \div 2)
       IN  RefMixFor(m, n - (n \div 2))

\* The schedule of a 16-byte key.
RefExpand(key) ==
  RefMixFor([S |-> RefTable(26), L |-> [n \in 1..4 |-> LEWord(key, 4 * (n - 1))],
             A |-> Zero32, B |-> Zero32, i |-> 0, j |-> 0], 78).S

\* Rounds r..12 of the encryption of <<A, B>> under S.
RECURSIVE RefRounds(_, _, _, _)
RefRounds(A, B, r, S) ==
  IF r > 12 \/ ~IsWord(A) \/ ~IsWord(B) THEN <<A, B>>
  ELSE LET A2 == Add32(CircularLeft(Xor32(A, B), Mod32(B)), At(S, 2 * r))
           B2 == Add32(CircularLeft(Xor32(B, A2), Mod32(A2)), At(S, 2 * r + 1))
       IN  RefRounds(A2, B2, r + 1, S)

RefEncrypt(S, block) ==
  LET ab == RefRounds(Add32(LEWord(block, 0), At(S, 0)),
                      Add32(LEWord(block, 4), At(S, 1)), 1, S)
  IN  LEBytes(ab[1]) \o LEBytes(ab[2])

\* ------------------------------------------------------------ claims

\* C1. Round trip: when Decrypt is called on the bytes the preceding Encrypt
\* of the same cipher wrote, it writes the bytes that Encrypt was given.
RoundTrip ==
  (last.op = "Decrypt" /\ prev.op = "Encrypt" /\ last.c = prev.c /\ last.in = prev.out)
    => last.out = prev.in

RoundTripWitness ==
  /\ last.op = "Decrypt" /\ prev.op = "Encrypt" /\ last.c = prev.c
  /\ last.in = prev.out
  /\ prev.out # prev.in
  /\ last.out = prev.in

\* C2. Key size: New with a key that is not 16 bytes long returns the nil
\* cipher and KeySizeError(len(key)), and allocates nothing; New with a
\* 16-byte key returns a cipher and the nil error.
KeySizeValidation ==
  /\ \A c \in Inst : rk[c] # <<>> => made[c] # NotMade
  /\ last.op = "New" =>
       IF Len(last.key) # 16
       THEN last.retc = NilCipher /\ last.reterr = KeySizeError(Len(last.key))
       ELSE last.retc \in Constructed /\ last.reterr = NoError

KeySizeWitness ==
  /\ last.op = "New" /\ Len(last.key) = 17 /\ last.reterr = KeySizeError(17)
  /\ prev.op = "New" /\ Len(prev.key) = 16 /\ prev.retc # NilCipher

\* C3. Encrypt is RC5-32/12 encryption: it never indexes rk outside 0..25, and
\* when it returns it has read rk[0], rk[1], ..., rk[25] once each in that
\* order and dst holds the RC5 encryption of the bytes src held.
EncryptConforms ==
  \A p \in Proc :
    LET f == frames[p]
    IN  f.op = "Encrypt" =>
          /\ f.pc # "panic"
          /\ \A n \in 1..Len(f.reads) : f.reads[n] = n - 1 /\ n <= 26
          /\ f.pc = "ret" => /\ Len(f.reads) = 26
                             /\ bufs[f.dst] = RefEncrypt(rk[f.c], f.src0)

EncryptConformsWitness ==
  \E p \in Proc :
    /\ frames[p].op = "Encrypt" /\ frames[p].pc = "ret"
    /\ frames[p].src0 # ZeroBlock
    /\ bufs[frames[p].dst] # frames[p].src0

\* C4. Nothing shared is changed after construction: skeytable keeps its
\* initial value, every cipher New has returned keeps the rk it was returned
\* with, and two ciphers made from the same key have the same rk.
NoSharedMutation ==
  /\ skeytable = skeytableLit
  /\ \A c \in Constructed : rk[c] = made[c].rk
  /\ \A c, d \in Constructed : made[c].key = made[d].key => rk[c] = rk[d]

NoSharedMutationWitness ==
  /\ \E c, d \in Constructed : c # d /\ made[c].key = made[d].key
  /\ last.op \in {"Encrypt", "Decrypt"}

\* The call f alone, from the state it was started in.
Alone(f) ==
  Run(IF f.op = "Encrypt" THEN EncryptFrame(f.c, f.dst, f.src)
      ELSE DecryptFrame(f.c, f.dst, f.src),
      [skeytable |-> skeytableLit, rk |-> [c \in Inst |-> made[c].rk],
       bufs |-> [bufs EXCEPT ![f.src] = f.src0]])

\* C5. Concurrent calls on one cipher, each on its own buffers: no statement
\* changes rk, and every call has written to its dst, when it returns, what
\* it writes when it runs alone.
ConcurrentSafe ==
  /\ \A c \in Constructed : rk[c] = made[c].rk
  /\ \A p \in Proc :
       LET f == frames[p]
       IN  f.op \in {"Encrypt", "Decrypt"} =>
             /\ f.pc # "panic"
             /\ f.pc = "ret" => bufs[f.dst] = Alone(f).h.bufs[f.dst]

ConcurrentSafeWitness ==
  \E p, q \in Proc :
    /\ frames[p].op = "Encrypt" /\ frames[p].pc = "ret"
    /\ frames[q].op = "Decrypt" /\ frames[q].pc = "ret"
    /\ frames[p].c = frames[q].c

OtherBuf(d) == <<d[1], IF d[2] = "x" THEN "y" ELSE "x">>

\* The call f started in the same state with the goroutine's other buffer as dst.
Apart(f) ==
  Run(IF f.op = "Encrypt" THEN EncryptFrame(f.c, OtherBuf(f.src), f.src)
      ELSE DecryptFrame(f.c, OtherBuf(f.src), f.src),
      [skeytable |-> skeytable, rk |-> rk, bufs |-> [bufs EXCEPT ![f.src] = f.src0]])

\* C6. In place: an Encrypt or Decrypt whose dst is its src has stored nothing
\* while it still has source bytes to load, and leaves in the buffer what the
\* same call with a separate dst writes to that dst.
InPlace ==
  \A p \in Proc :
    LET f == frames[p]
    IN  (f.op \in {"Encrypt", "Decrypt"} /\ f.dst = f.src) =>
          /\ f.pc \in {"e79", "e80", "d96", "d97"} => bufs[f.src] = f.src0
          /\ f.pc = "ret" => bufs[f.dst] = Apart(f).h.bufs[OtherBuf(f.src)]

InPlaceWitness ==
  \E p \in Proc :
    /\ frames[p].op = "Encrypt" /\ frames[p].dst = frames[p].src
    /\ frames[p].pc = "ret"
    /\ bufs[frames[p].dst] # frames[p].src0

\* C7. The table: 26 words, skeytable[0] = 0xb7e15163 and skeytable[i] =
\* skeytable[i-1] + 0x9e3779b9 mod 2^32 for i in 1..25, the same in both
\* revisions of the source.
MagicTable ==
  /\ Len(skeytable) = 26
  /\ At(skeytable, 0) = Pw
  /\ \A i \in 1..25 : At(skeytable, i) = Add32(At(skeytable, i - 1), Qw)
  /\ skeytableLit_bits = skeytable

MagicTableWitness ==
  /\ Constructed # {}
  /\ At(skeytable, 25) = Word(\h2b4c, \h3474)

\* C8. Key expansion: New's mixing loop starts from the little-endian words of
\* the key, a copy of the table and A = B = 0; it keeps i in 0..25 and j in
\* 0..3, round k working on S[k mod 26] and L[k mod 4]; it ends after 78
\* rounds with every rk word stored 3 times, and the cipher returned holds the
\* RC5 schedule of the key.
KeyExpansion ==
  \A p \in Proc :
    LET f == frames[p]
    IN  f.op = "New" =>
          /\ f.pc # "panic"
          /\ f.pc \in {"n63", "n65"} =>
               /\ f.k < 78 /\ f.i = f.k % 26 /\ f.j = f.k % 4
               /\ \A n \in 0..25 :
                    At(f.upd, n) = (f.k \div 26)
                                   + (IF n < f.k % 26 \/ (n = f.i /\ f.pc = "n65")
                                      THEN 1 ELSE 0)
          /\ (f.pc = "n63" /\ f.k = 0) =>
               /\ f.L = [n \in 1..4 |-> LEWord(f.key0, 4 * (n - 1))]
               /\ rk[f.c] = RefTable(26)
               /\ f.A = Zero32 /\ f.B = Zero32
          /\ (f.pc = "n72" \/ (f.pc = "ret" /\ f.reterr = NoError)) =>
               /\ f.k = 78 /\ f.i \in 0..25 /\ f.j \in 0..3
               /\ \A n \in 0..25 : At(f.upd, n) = 3
               /\ rk[f.c] = RefExpand(f.key0)
               /\ f.pc = "ret" => f.retc = f.c

KeyExpansionWitness ==
  \E p \in Proc :
    /\ frames[p].op = "New" /\ frames[p].pc = "ret" /\ frames[p].retc # NilCipher
    /\ frames[p].k = 78
    /\ frames[p].key0 # KeyOfLen(16, 0)

\* C9. Every rotation New, Encrypt and Decrypt perform is handed an amount in
\* 0..31 and returns the word rotated circularly by it: by 0, the word itself.
Rotations ==
  \A p \in Proc :
    LET r == frames[p].rot
    IN  r.fn # "none" =>
          /\ r.rot \in 0..31
          /\ r.out = IF r.fn = "rotl32" THEN CircularLeft(r.k, r.rot)
                     ELSE CircularRight(r.k, r.rot)
          /\ r.rot = 0 => r.out = r.k

RotationsWitness ==
  \E p \in Proc :
    /\ frames[p].op = "Decrypt"
    /\ frames[p].rot.fn = "rotr32" /\ frames[p].rot.rot = 0
    /\ frames[p].rot.k # Zero32

\* What of a frame is the program's.
Visible(f) ==
  <<f.op, f.c, f.dst, f.src, f.key, f.L, f.A, f.B, f.i, f.j, f.k, f.kidx, f.r,
    f.retc, f.reterr, Finished(f)>>

\* C10. The two revisions agree: started on the same calls, after every
\* statement they hold the same locals, the same rk for every cipher and the
\* same bytes in every buffer, and they return the same values.
Equivalent ==
  /\ other.h = Heap
  /\ Visible(other.f) = Visible(frames[1])

EquivalentWitness ==
  /\ other.w = 32
  /\ frames[1].op = "Decrypt" /\ frames[1].pc = "ret"
  /\ other.f.pc = "ret"
  /\ bufs[frames[1].dst] # frames[1].src0

====
